---- MODULE Spec2Model ----
(***************************************************************************)
(* A model of services/gameLogic.ts: deck construction and shuffling,     *)
(* hand valuation under a joker, round settlement and the bot policy.     *)
(* The exported functions are pure; each is an operator translated from   *)
(* its code, and each specification below draws the inputs of one of them *)
(* from a bounded set and applies it.  shuffleDeck is modelled step by    *)
(* step over a heap of arrays, so that copying and aliasing are visible.  *)
(***************************************************************************)
EXTENDS Integers, Sequences, FiniteSets, Bags, TLC

VARIABLES
    pc,       \* "idle" | "shuffle" | "done": where the current call stands
    call,     \* the current call: the function's name and a snapshot of its arguments
    ret,      \* what the call produced: a returned value or a thrown error
    heap,     \* the arrays allocated so far, by reference
    deck,     \* shuffleDeck's parameter `deck`: a reference into heap (0: none)
    newDeck,  \* shuffleDeck's local `newDeck`: a reference into heap (0: none)
    i         \* shuffleDeck's loop index

vars == <<pc, call, ret, heap, deck, newDeck, i>>

(***************************************************************************)
(* Bounds of the model.                                                    *)
(***************************************************************************)
MaxShuffleLen == 4   \* longest array handed directly to shuffleDeck
MaxValueHand == 3    \* longest hand handed directly to calculateHandValue
MaxPlayers == 3      \* most players in a settlement
MaxScoreHand == 1    \* longest hand of a player in a settlement
MaxBotHand == 4      \* longest hand of the bot

(***************************************************************************)
(* ../constants (SUITS, RANKS, RANK_VALUES) is not among the source files. *)
(* The tables below follow the specification: finite sets of suits and of  *)
(* ranks without repetition, ranks written as the strings the card faces   *)
(* show ("7" in the specification's examples), and one value per rank.     *)
(***************************************************************************)
SUITS == <<"hearts", "spades">>

RANKS == <<"A", "2", "3", "K">>

RANK_VALUES == [r \in {"A", "2", "3", "K"} |->
                  CASE r = "A" -> 1 [] r = "2" -> 2 [] r = "3" -> 3 [] r = "K" -> 13]

(***************************************************************************)
(* JavaScript values.                                                      *)
(***************************************************************************)
Null == [null |-> TRUE]
Undefined == [undefined |-> TRUE]
\* Math.min() of no arguments is +Infinity: a number above every hand value.
Infinity == 2147483647

NoResult == [kind |-> "none"]
Return(v) == [kind |-> "return", value |-> v]
Throw(e) == [kind |-> "throw", error |-> e]

\* array[index] for a JavaScript number index: undefined outside 0 .. length-1.
At(array, index) ==
    IF index \in 0..(Len(array) - 1) THEN array[index + 1] ELSE Undefined

(***************************************************************************)
(* createDeck.                                                             *)
(***************************************************************************)
\* The template literal `card-${idCounter++}-${rank}-${suit}`.
CardId(idCounter, rank, suit) ==
    "card-" \o ToString(idCounter) \o "-" \o rank \o "-" \o suit

\* The object literal pushed at lines 11-16.
MkCard(idCounter, suit, rank) ==
    [id |-> CardId(idCounter, rank, suit), suit |-> suit, rank |-> rank,
     value |-> RANK_VALUES[rank]]

\* for (const rank of RANKS) { deck.push(...) }, from the r-th rank on;
\* st is the pair of locals [deck, idCounter].
RECURSIVE PushRanks(_, _, _)
PushRanks(st, suit, r) ==
    IF r > Len(RANKS) THEN st
    ELSE PushRanks([deck |-> Append(st.deck, MkCard(st.idCounter, suit, RANKS[r])),
                    idCounter |-> st.idCounter + 1], suit, r + 1)

\* for (const suit of SUITS) { ... }, from the s-th suit on.
RECURSIVE PushSuits(_, _)
PushSuits(st, s) ==
    IF s > Len(SUITS) THEN st
    ELSE PushSuits(PushRanks(st, SUITS[s], 1), s + 1)

\* The array `deck` of createDeck when the loops end.
BuildDeck == PushSuits([deck |-> <<>>, idCounter |-> 0], 1).deck

(***************************************************************************)
(* shuffleDeck, over the heap.                                             *)
(***************************************************************************)
\* A reference not yet in use.
NewRef(h) == Cardinality(DOMAIN h) + 1

\* new array holding `contents`: the heap with it, and its reference.
Alloc(h, contents) ==
    [heap |-> [r \in DOMAIN h \cup {NewRef(h)} |->
                 IF r \in DOMAIN h THEN h[r] ELSE contents],
     ref |-> NewRef(h)]

\* Variant: `const newDeck = deck`, the same array and no copy.
SpreadAliased(h, ref) == [heap |-> h, ref |-> ref]

\* [...deck]: a new array with the elements of the array at ref, in order.
Spread(h, ref) == Alloc(h, h[ref])

\* Variant: array[a] = array[b] alone, the other element lost.
SwapOverwrite(array, a, b) == [array EXCEPT ![a + 1] = array[b + 1]]

\* [array[a], array[b]] = [array[b], array[a]]: the right side is read first.
Swap(array, a, b) ==
    [array EXCEPT ![a + 1] = array[b + 1], ![b + 1] = array[a + 1]]

\* Math.floor(Math.random() * (k + 1)): Math.random() is in [0, 1).
RandomIndex(k) == 0..k

\* A sequence's elements as a bag.
RECURSIVE BagOf(_)
BagOf(s) == IF s = <<>> THEN EmptyBag ELSE BagOf(Tail(s)) (+) SetToBag({Head(s)})

\* All sequences over S of length at most n.
SeqsUpTo(S, n) == UNION {[1..k -> S] : k \in 0..n}

\* The arrays handed directly to shuffleDeck: cards of a deck, repeats allowed.
ShuffleElems == {BuildDeck[k] : k \in 1..3}
ShuffleInputs == SeqsUpTo(ShuffleElems, MaxShuffleLen)

InitIdle ==
    /\ pc = "idle"
    /\ ret = NoResult
    /\ heap = <<>>
    /\ deck = 0
    /\ newDeck = 0
    /\ i = 0

InitDeck ==
    /\ InitIdle
    /\ call = [fn |-> "none"]

\* Entry of shuffleDeck(array at ref `arg`): line 23 and the loop's initialiser.
EnterShuffle(h, arg) ==
    LET sp == Spread(h, arg)
    IN /\ heap' = sp.heap
       /\ deck' = arg
       /\ newDeck' = sp.ref
       /\ i' = Len(sp.heap[sp.ref]) - 1
       /\ pc' = "shuffle"

\* createDeck(): builds the deck and calls shuffleDeck(deck).
CallCreateDeck ==
    /\ pc = "idle"
    /\ LET a == Alloc(heap, BuildDeck)
       IN /\ call' = [fn |-> "createDeck", deck |-> a.heap[a.ref]]
          /\ EnterShuffle(a.heap, a.ref)
    /\ UNCHANGED ret

\* shuffleDeck(input), called directly.
CallShuffleDeck ==
    /\ pc = "idle"
    /\ \E input \in ShuffleInputs :
         LET a == Alloc(heap, input)
         IN /\ call' = [fn |-> "shuffleDeck", deck |-> input]
            /\ EnterShuffle(a.heap, a.ref)
    /\ UNCHANGED ret

\* One iteration of the loop of lines 24-27.
ShuffleStep ==
    /\ pc = "shuffle"
    /\ i > 0
    /\ \E j \in RandomIndex(i) :
         heap' = [heap EXCEPT ![newDeck] = Swap(heap[newDeck], i, j)]
    /\ i' = i - 1
    /\ UNCHANGED <<pc, call, ret, deck, newDeck>>

\* The loop's exit and `return newDeck`.
ShuffleReturn ==
    /\ pc = "shuffle"
    /\ ~(i > 0)
    /\ ret' = Return(newDeck)
    /\ pc' = "done"
    /\ UNCHANGED <<call, heap, deck, newDeck, i>>

NextDeck == CallCreateDeck \/ CallShuffleDeck \/ ShuffleStep \/ ShuffleReturn

SpecDeck == InitDeck /\ [][NextDeck]_vars

(***************************************************************************)
(* calculateHandValue.                                                     *)
(***************************************************************************)
\* The cards a hand or a joker is drawn from: those of a deck.
Cards == {BuildDeck[k] : k \in 1..Len(BuildDeck)}
Jokers == {Null} \cup Cards

PlainSum(sum, card) == sum + card.value

\* Variant: the joker test on the rank alone.
JokerSumRankOnly(joker, sum, card) ==
    IF card.rank = joker.rank THEN sum + 0 ELSE sum + card.value

\* The callback of lines 36-42.
JokerSum(joker, sum, card) ==
    IF card.rank = joker.rank /\ card.suit = joker.suit
    THEN sum + 0
    ELSE sum + card.value

\* hand.reduce(PlainSum, sum): a left fold from index 0 (line 34).
RECURSIVE ReducePlainSum(_, _)
ReducePlainSum(hand, sum) ==
    IF hand = <<>> THEN sum
    ELSE ReducePlainSum(Tail(hand), PlainSum(sum, Head(hand)))

\* hand.reduce(JokerSum, sum): a left fold from index 0 (lines 36-42).
RECURSIVE ReduceJokerSum(_, _, _)
ReduceJokerSum(joker, hand, sum) ==
    IF hand = <<>> THEN sum
    ELSE ReduceJokerSum(joker, Tail(hand), JokerSum(joker, sum, Head(hand)))

calculateHandValue(hand, joker) ==
    IF joker = Null
    THEN ReducePlainSum(hand, 0)
    ELSE ReduceJokerSum(joker, hand, 0)

ValueHands == SeqsUpTo(Cards, MaxValueHand)

InitValue ==
    /\ InitIdle
    /\ \E hand \in ValueHands, joker \in Jokers :
         call = [fn |-> "calculateHandValue", hand |-> hand, joker |-> joker]

CallCalculateHandValue ==
    /\ pc = "idle"
    /\ call.fn = "calculateHandValue"
    /\ ret' = Return(calculateHandValue(call.hand, call.joker))
    /\ pc' = "done"
    /\ UNCHANGED <<call, heap, deck, newDeck, i>>

NextValue == CallCalculateHandValue

SpecValue == InitValue /\ [][NextValue]_vars

(***************************************************************************)
(* getRoundScores.                                                         *)
(***************************************************************************)
\* Array.prototype.find with the predicate h => h.id === target.id: the first
\* match, or undefined.  The predicate reads target.id at every element it
\* visits, and on no element when the array is empty.
RECURSIVE FindById(_, _)
FindById(array, target) ==
    IF array = <<>> THEN Undefined
    ELSE IF Head(array).id = target.id THEN Head(array)
    ELSE FindById(Tail(array), target)

\* found?.val || 0
ValOrZero(found) ==
    IF found = Undefined THEN 0
    ELSE IF found.val = 0 THEN 0 ELSE found.val

\* Math.min(...values)
RECURSIVE MathMin(_)
MathMin(values) ==
    IF values = <<>> THEN Infinity
    ELSE LET rest == MathMin(Tail(values))
         IN IF Head(values) < rest THEN Head(values) ELSE rest

\* The branches of lines 68-77.
CallerScore(callerIsLowest, winnersCount) ==
    IF callerIsLowest /\ winnersCount = 1 THEN 0
    ELSE IF callerIsLowest /\ winnersCount > 1 THEN 25
    ELSE 50

\* Reading .id of players[callerIndex] when that is undefined throws a
\* TypeError; the callbacks of find (line 56) and of the final map (line 67)
\* read it, once per element visited.
ReadsCallerId(players) == Len(players) > 0

\* The function's body once players[callerIndex].id can be read: lines 51-81,
\* with caller standing for players[callerIndex].
Settle(players, caller, joker) ==
    LET handValues == [k \in 1..Len(players) |->
                         [id |-> players[k].id,
                          val |-> calculateHandValue(players[k].hand, joker)]]
        callerValue == ValOrZero(FindById(handValues, caller))
        lowestValue == MathMin([k \in 1..Len(handValues) |-> handValues[k].val])
        winnersCount == Len(SelectSeq(handValues, LAMBDA h : h.val = lowestValue))
        callerIsLowest == callerValue = lowestValue
    IN [k \in 1..Len(players) |->
          LET p == players[k]
              handVal == calculateHandValue(p.hand, joker)
          IN [playerId |-> p.id,
              roundScore |-> IF p.id = caller.id
                             THEN CallerScore(callerIsLowest, winnersCount)
                             ELSE handVal]]

\* Variant: players[callerIndex]?.id in place of players[callerIndex].id: no error, and
\* an id (undefined) that no player has.
getRoundScoresOptionalChaining(players, callerIndex, joker) ==
    Return(Settle(players,
                  IF At(players, callerIndex) = Undefined
                  THEN [id |-> 0] ELSE At(players, callerIndex),
                  joker))

getRoundScores(players, callerIndex, joker) ==
    IF ReadsCallerId(players) /\ At(players, callerIndex) = Undefined
    THEN Throw("TypeError")
    ELSE Return(Settle(players, At(players, callerIndex), joker))

\* The inputs of a settlement: hands over two cards of the deck, player ids
\* that may repeat, a joker among those cards or none, and caller indexes on
\* both sides of the valid range.
ScoreCards == {BuildDeck[1], BuildDeck[2]}
ScoreJokers == {Null} \cup ScoreCards
PlayerIds == {1, 2}
ScorePlayers == [id : PlayerIds, hand : SeqsUpTo(ScoreCards, MaxScoreHand)]
CallerIndexes == -1..MaxPlayers

InitScore ==
    /\ InitIdle
    /\ \E players \in SeqsUpTo(ScorePlayers, MaxPlayers),
          callerIndex \in CallerIndexes, joker \in ScoreJokers :
         call = [fn |-> "getRoundScores", players |-> players,
                 callerIndex |-> callerIndex, joker |-> joker]

CallGetRoundScores ==
    /\ pc = "idle"
    /\ call.fn = "getRoundScores"
    /\ ret' = getRoundScores(call.players, call.callerIndex, call.joker)
    /\ pc' = "done"
    /\ UNCHANGED <<call, heap, deck, newDeck, i>>

NextScore == CallGetRoundScores

SpecScore == InitScore /\ [][NextScore]_vars

(***************************************************************************)
(* decideBotAction.                                                        *)
(***************************************************************************)
\* rankCounts is modelled as the sequence of its entries [key, cards] in the
\* order the keys were created.
HasKey(rankCounts, key) == \E k \in 1..Len(rankCounts) : rankCounts[k].key = key

Entry(rankCounts, key) ==
    rankCounts[CHOOSE k \in 1..Len(rankCounts) : rankCounts[k].key = key].cards

\* The body of the loop of lines 94-97.
CountCard(rankCounts, card) ==
    LET created == IF HasKey(rankCounts, card.rank) THEN rankCounts
                   ELSE Append(rankCounts, [key |-> card.rank, cards |-> <<>>])
    IN [k \in 1..Len(created) |->
          IF created[k].key = card.rank
          THEN [created[k] EXCEPT !.cards = Append(@, card)]
          ELSE created[k]]

\* for (const card of hand) { ... }: rankCounts when the loop ends.
RECURSIVE CountCards(_, _)
CountCards(rankCounts, hand) ==
    IF hand = <<>> THEN rankCounts
    ELSE CountCards(CountCard(rankCounts, Head(hand)), Tail(hand))

\* A property key that is an array index (the canonical decimal string of a
\* non-negative integer): its number, or -1 for any other key.  Rank strings
\* have at most two characters.
ArrayIndex(key) ==
    IF \E n \in 0..99 : ToString(n) = key
    THEN CHOOSE n \in 0..99 : ToString(n) = key
    ELSE -1

\* The keys `for (const rank in rankCounts)` visits, in order: the keys that
\* are array indexes in ascending numeric order, then the other string keys
\* in the order they were created (OrdinaryOwnPropertyKeys).
ForInKeys(rankCounts) ==
    LET keys == [k \in 1..Len(rankCounts) |-> rankCounts[k].key]
    IN SortSeq(SelectSeq(keys, LAMBDA key : ArrayIndex(key) >= 0),
               LAMBDA a, b : ArrayIndex(a) < ArrayIndex(b))
       \o SelectSeq(keys, LAMBDA key : ArrayIndex(key) < 0)

\* (c.rank === joker?.rank && c.suit === joker?.suit) ? 0 : c.value
EffectiveValue(c, joker) ==
    IF joker # Null /\ c.rank = joker.rank /\ c.suit = joker.suit THEN 0 ELSE c.value

\* Variant: `>=` for `>`, so that a later card of equal value replaces an earlier one.
HighestStepLast(joker, acc, c) ==
    IF EffectiveValue(c, joker) >= acc.highestVal
    THEN [highestVal |-> EffectiveValue(c, joker), highestCard |-> c]
    ELSE acc

\* The callback of hand.forEach, lines 124-130; acc is the pair of locals.
HighestStep(joker, acc, c) ==
    IF EffectiveValue(c, joker) > acc.highestVal
    THEN [highestVal |-> EffectiveValue(c, joker), highestCard |-> c]
    ELSE acc

\* hand.forEach(callback), from the locals acc on.
RECURSIVE ForEachHighest(_, _, _)
ForEachHighest(joker, acc, hand) ==
    IF hand = <<>> THEN acc
    ELSE ForEachHighest(joker, HighestStep(joker, acc, Head(hand)), Tail(hand))

\* highestCard after lines 121-130.
HighestCard(hand, joker) ==
    ForEachHighest(joker, [highestVal |-> -1, highestCard |-> At(hand, 0)],
                   hand).highestCard

\* Variant: `<` for `<=`.
ShowAtBelow(currentScore) == currentScore < 5

\* The condition of line 114.
ShowAt(currentScore) == currentScore <= 5

decideBotAction(player, joker, tossedThisTurn) ==
    LET hand == player.hand
        currentScore == calculateHandValue(hand, joker)
        rankCounts == CountCards(<<>>, hand)
        pairs == SelectSeq(ForInKeys(rankCounts),
                           LAMBDA rank : Len(Entry(rankCounts, rank)) >= 2)
    IN IF ~tossedThisTurn /\ pairs # <<>>
       THEN [type |-> "TOSS",
             cardIds |-> <<Entry(rankCounts, pairs[1])[1].id,
                           Entry(rankCounts, pairs[1])[2].id>>]
       ELSE IF ShowAt(currentScore)
       THEN [type |-> "SHOW"]
       ELSE [type |-> "DISCARD", cardIds |-> <<HighestCard(hand, joker).id>>]

\* The bot's hands: cards dealt from one deck, so no card twice.
BotHands ==
    {h \in SeqsUpTo(Cards, MaxBotHand) :
       \A a, b \in 1..Len(h) : a # b => h[a] # h[b]}

InitBot ==
    /\ InitIdle
    /\ \E hand \in BotHands, joker \in Jokers, tossedThisTurn \in BOOLEAN :
         call = [fn |-> "decideBotAction", player |-> [id |-> 1, hand |-> hand],
                 joker |-> joker, tossedThisTurn |-> tossedThisTurn]

CallDecideBotAction ==
    /\ pc = "idle"
    /\ call.fn = "decideBotAction"
    /\ ret' = Return(decideBotAction(call.player, call.joker, call.tossedThisTurn))
    /\ pc' = "done"
    /\ UNCHANGED <<call, heap, deck, newDeck, i>>

NextBot == CallDecideBotAction

SpecBot == InitBot /\ [][NextBot]_vars

(***************************************************************************)
(* The claims.                                                             *)
(***************************************************************************)
Done(fn) == pc = "done" /\ call.fn = fn

\* The sum of f[k] over the k of a finite set.
RECURSIVE SumOver(_, _)
SumOver(f, S) ==
    IF S = {} THEN 0
    ELSE LET k == CHOOSE x \in S : TRUE IN f[k] + SumOver(f, S \ {k})

\* Both the rank and the suit of the card equal the joker's.
IsJoker(card, joker) ==
    joker # Null /\ card.rank = joker.rank /\ card.suit = joker.suit

\* C8: calculateHandValue(hand, joker) is the sum of card.value over exactly
\* the cards of the hand whose rank and suit do not both equal the joker's:
\* every matching card counts 0, a card matching in rank only or in suit only
\* counts in full, no joker gives the plain sum, and the empty hand gives 0.
C8_HandValueIsSumOfNonJokers ==
    Done("calculateHandValue") =>
        LET hand == call.hand
            counted == {k \in 1..Len(hand) : ~IsJoker(hand[k], call.joker)}
        IN /\ ret = Return(SumOver([k \in 1..Len(hand) |-> hand[k].value], counted))
           /\ (call.joker = Null =>
                 ret.value = SumOver([k \in 1..Len(hand) |-> hand[k].value],
                                     1..Len(hand)))
           /\ (hand = <<>> => ret.value = 0)

\* A hand with two cards matching the joker and one card of the joker's rank
\* in another suit, valued at that one card.
C8_Witness ==
    /\ Done("calculateHandValue")
    /\ call.joker # Null
    /\ Cardinality({k \in 1..Len(call.hand) : IsJoker(call.hand[k], call.joker)}) = 2
    /\ \E k \in 1..Len(call.hand) :
         /\ call.hand[k].rank = call.joker.rank
         /\ call.hand[k].suit # call.joker.suit
         /\ ret.value = call.hand[k].value
         /\ ret.value > 0

\* The array a finished call returned.
Returned == heap[ret.value]

\* C9: createDeck returns |SUITS| x |RANKS| cards, every (suit, rank)
\* combination on exactly one of them, all ids pairwise distinct, and every
\* card's value the table's entry for its rank, whatever the random draws.
C9_DeckComplete ==
    Done("createDeck") =>
        /\ ret.kind = "return"
        /\ Len(Returned) = Len(SUITS) * Len(RANKS)
        /\ \A s \in 1..Len(SUITS), r \in 1..Len(RANKS) :
             Cardinality({k \in 1..Len(Returned) :
                            /\ Returned[k].suit = SUITS[s]
                            /\ Returned[k].rank = RANKS[r]}) = 1
        /\ \A a, b \in 1..Len(Returned) : a # b => Returned[a].id # Returned[b].id
        /\ \A k \in 1..Len(Returned) : Returned[k].value = RANK_VALUES[Returned[k].rank]

\* A deck returned in another order than the loops built it in: the card
\* built last comes first.
C9_Witness ==
    /\ Done("createDeck")
    /\ Returned # call.deck
    /\ Returned[1] = call.deck[Len(call.deck)]

\* C10: shuffleDeck returns a new array that is a permutation of its input
\* (the same elements, each as often), and the input array is as it was,
\* element for element and in order.
C10_ShufflePermutesACopy ==
    (pc = "done" /\ call.fn \in {"shuffleDeck", "createDeck"}) =>
        /\ ret.kind = "return"
        /\ ret.value # deck
        /\ BagOf(Returned) = BagOf(call.deck)
        /\ heap[deck] = call.deck

\* A direct call on an array with a repeated element, returned reordered.
C10_Witness ==
    /\ Done("shuffleDeck")
    /\ Len(call.deck) >= 3
    /\ \E a, b \in 1..Len(call.deck) : a # b /\ call.deck[a] = call.deck[b]
    /\ Returned # call.deck
    /\ heap[deck] = call.deck

\* callerIndex is an index into players.
ValidCaller == call.callerIndex \in 0..(Len(call.players) - 1)

\* The hand value of the k-th player of the call (k from 1).
HandValueOf(k) == calculateHandValue(call.players[k].hand, call.joker)

\* The least hand value over the players of the call.
LowestHandValue ==
    CHOOSE v \in {HandValueOf(k) : k \in 1..Len(call.players)} :
        \A k \in 1..Len(call.players) : v <= HandValueOf(k)

\* What the settlement rule gives the player at callerIndex: 0 for the only
\* lowest hand, 25 for a lowest hand another player shares, 50 otherwise.
ExpectedCallerScore ==
    LET c == call.callerIndex + 1
        others == {k \in 1..Len(call.players) : k # c /\ HandValueOf(k) = LowestHandValue}
    IN IF HandValueOf(c) = LowestHandValue
       THEN (IF others = {} THEN 0 ELSE 25)
       ELSE 50

\* C1: for non-empty players and a valid callerIndex, the entry at
\* callerIndex has roundScore 0 when that player's hand value is the minimum
\* and no other player has it, 25 when another player has it too, and 50 when
\* it is above the minimum.
C1_CallerScoredByIndex ==
    (Done("getRoundScores") /\ Len(call.players) > 0 /\ ValidCaller) =>
        /\ ret.kind = "return"
        /\ ret.value[call.callerIndex + 1].roundScore = ExpectedCallerScore

\* C2: for a valid callerIndex there is one entry per player, in the order of
\* players, and every entry other than the one at callerIndex has the
\* player's own hand value as its roundScore, whatever the player ids are.
C2_OthersKeepHandValue ==
    (Done("getRoundScores") /\ ValidCaller) =>
        /\ ret.kind = "return"
        /\ Len(ret.value) = Len(call.players)
        /\ \A k \in 1..Len(call.players) :
             /\ ret.value[k].playerId = call.players[k].id
             /\ (k # call.callerIndex + 1 => ret.value[k].roundScore = HandValueOf(k))

\* C3: for non-empty players and a callerIndex that is negative or at least
\* the number of players, getRoundScores throws and returns no result.
C3_InvalidCallerThrows ==
    (Done("getRoundScores") /\ Len(call.players) > 0 /\ ~ValidCaller) =>
        ret.kind = "throw"

\* Two players and callerIndex 2, one past the last index: an error.
C3_Witness ==
    /\ Done("getRoundScores")
    /\ Len(call.players) = 2
    /\ call.callerIndex = 2
    /\ ret = Throw("TypeError")

\* C4: getRoundScores on an empty players array throws, whatever callerIndex
\* and joker are; it returns no result.
C4_EmptyPlayersThrows ==
    (Done("getRoundScores") /\ call.players = <<>>) => ret.kind = "throw"

\* The bot's hand in the call, and the positions of its cards of a rank.
BotHand == call.player.hand
PositionsOf(rank) == {k \in 1..Len(BotHand) : BotHand[k].rank = rank}

\* Some rank is on two or more cards of the hand.
HasPair == \E a, b \in 1..Len(BotHand) : a # b /\ BotHand[a].rank = BotHand[b].rank

Least(S) == CHOOSE x \in S : \A y \in S : x <= y

\* The positions of the first two cards of the qualifying rank seen first in
\* hand order: the rank, among those on two or more cards, whose first card
\* comes earliest.
FirstSeenPair ==
    LET qualifying == {k \in 1..Len(BotHand) :
                         Cardinality(PositionsOf(BotHand[k].rank)) >= 2}
        first == Least(qualifying)
        second == Least(PositionsOf(BotHand[first].rank) \ {first})
    IN <<first, second>>

\* C5: with a rank on two or more cards and tossedThisTurn false, the action
\* is TOSS and names the first two cards, in hand order, of the qualifying
\* rank that is seen first in hand order.
C5_TossFirstSeenPair ==
    (Done("decideBotAction") /\ HasPair /\ ~call.tossedThisTurn) =>
        /\ ret.value.type = "TOSS"
        /\ ret.value.cardIds = <<BotHand[FirstSeenPair[1]].id, BotHand[FirstSeenPair[2]].id>>

\* C6: when no toss fires (no rank is on two cards, or tossedThisTurn is
\* true), the action is SHOW if calculateHandValue(hand, joker) is at most 5
\* and DISCARD otherwise, never TOSS; the empty hand gives SHOW.
C6_ShowIffAtMostFive ==
    (Done("decideBotAction") /\ (~HasPair \/ call.tossedThisTurn)) =>
        /\ ret.kind = "return"
        /\ ret.value.type \in {"SHOW", "DISCARD"}
        /\ ret.value.type = "SHOW" <=> calculateHandValue(BotHand, call.joker) <= 5
        /\ (BotHand = <<>> => ret.value.type = "SHOW")

\* A hand holding a pair, valued at exactly 5, after a toss this turn: SHOW.
C6_Witness ==
    /\ Done("decideBotAction")
    /\ HasPair
    /\ call.tossedThisTurn
    /\ calculateHandValue(BotHand, call.joker) = 5
    /\ ret.value.type = "SHOW"

\* A card's effective value: 0 when its rank and suit are the joker's, the
\* table's value for its rank otherwise.
TableEffectiveValue(card) ==
    IF IsJoker(card, call.joker) THEN 0 ELSE RANK_VALUES[card.rank]

\* C7: a DISCARD names exactly one card id, of a card of the hand whose
\* effective value is the greatest in the hand, and which comes first in
\* hand order among the cards of that value.
C7_DiscardFirstHighest ==
    (Done("decideBotAction") /\ ret.value.type = "DISCARD") =>
        /\ Len(ret.value.cardIds) = 1
        /\ \E k \in 1..Len(BotHand) :
             /\ BotHand[k].id = ret.value.cardIds[1]
             /\ \A m \in 1..Len(BotHand) :
                  TableEffectiveValue(BotHand[m]) <= TableEffectiveValue(BotHand[k])
             /\ \A m \in 1..(k - 1) :
                  TableEffectiveValue(BotHand[m]) < TableEffectiveValue(BotHand[k])

\* A DISCARD from a hand where a later card has the same, greatest effective
\* value as the card named.
C7_Witness ==
    /\ Done("decideBotAction")
    /\ ret.value.type = "DISCARD"
    /\ \E k, m \in 1..Len(BotHand) :
         /\ k < m
         /\ BotHand[k].id = ret.value.cardIds[1]
         /\ TableEffectiveValue(BotHand[m]) = TableEffectiveValue(BotHand[k])

====
